---- MODULE Spec2Model ----
\* Model of server/src/game/match.ts: the match registry, the join and
\* deck-choice handlers, tryStartMatch and the forced steps of a turn.
EXTENDS Integers, Sequences, FiniteSets, TLC

\* ------------------------------------------------------------------ bounds
\* Number of client connections that may call addPlayer (one call each).
NumClients == 3
\* Cards of a deck beyond what setupPlayer takes out of it.
SpareCards == 1
\* Cards owned by each player of a mid-game position (TurnInit).
TurnCards == 2

Clients == 1..NumClients

\* ------------------------------------------------------------ program data
\* IMatch.player1 / player2 / playerTurn are optional: 0 stands for undefined.
Unset == 0
\* Cards setupPlayer puts into the shield zone and into the hand.
SetupShields == 5
SetupHand == 5

\* Values of the Phase enum used by match.ts.
IDLE == "IDLE"
CHOOSE_DECK == "CHOOSE_DECK"
BEGIN_TURN_STEP == "BEGIN_TURN_STEP"
UNTAP_STEP == "UNTAP_STEP"
START_TURN_STEP == "START_TURN_STEP"
DRAW_STEP == "DRAW_STEP"
CHARGE_STEP == "CHARGE_STEP"
MAIN_STEP == "MAIN_STEP"

\* shortid.generate() results of createMatch, and ids no match carries.
MatchIds == {"m1", "m?"}
InviteIds == {"i1", "i?"}

\* Deck uids: d1 is a standard deck (returned for every user), d? is a deck
\* the user may not use.
DeckIds == {"d1", "d?"}
StandardDecks == {"d1"}
DeckSize(d) == SetupShields + SetupHand + SpareCards

\* Deck.find().or([{owner: user.uid}, {standard: true}])
findDecks(c) == StandardDecks

VARIABLES
    matches,     \* ids of the matches in the registry
    match,       \* the IMatch created by createMatch
    players,     \* the IPlayer object attached to each client connection
    apc,         \* position of each client's addPlayer call
    pc,          \* position of the turn engine ("rest": no handler running)
    last,        \* the handler that ran last and how it ended
    sent,        \* messages sent to clients by the handler that ran last
    snapshot,    \* last state update received by each client
    fired        \* creatures whose start-of-turn handler was called, in order

vars == <<matches, match, players, apc, pc, last, sent, snapshot, fired>>

\* A message handed to the transport: sendError, sendChooseDeck, sendWarning
\* or a state update to client c; text is the error or warning text, or the
\* phase a state update shows.
Msg(c, kind, text) == [to |-> c, kind |-> kind, text |-> text]

\* ------------------------------------------------------------- data shapes
\* The IPlayer literal of addPlayer; deck is absent until playerChooseDeck.
NewPlayer(ds) ==
    [created |-> TRUE, decks |-> ds, hasDeck |-> FALSE, deck |-> <<>>,
     hand |-> <<>>, shieldzone |-> <<>>, manazone |-> <<>>,
     graveyard |-> <<>>, battlezone |-> <<>>, hiddenzone |-> <<>>,
     tapped |-> {}, sick |-> {}]

\* A client to which no player object has been attached yet.
NoPlayer == [NewPlayer({}) EXCEPT !.created = FALSE]

\* The state update a client holds before any was sent to it.
NoSnapshot ==
    [phase |-> "none", playerTurn |-> Unset, players |-> [c \in Clients |-> NoPlayer]]

\* The first n elements of s, and s without them.
Take(s, n) == SubSeq(s, 1, IF n < Len(s) THEN n ELSE Len(s))
Drop(s, n) == SubSeq(s, (IF n < Len(s) THEN n ELSE Len(s)) + 1, Len(s))

\* ------------------------------------------------------------------- Init
\* No match has been created yet.
Init ==
    /\ matches = {}
    /\ match = [id |-> "m1", inviteId |-> "i1", phase |-> IDLE,
                player1 |-> Unset, player2 |-> Unset, playerTurn |-> Unset]
    /\ players = [c \in Clients |-> NoPlayer]
    /\ apc = [c \in Clients |-> "idle"]
    /\ pc = "rest"
    /\ last = [op |-> "none", out |-> "none"]
    /\ sent = {}
    /\ snapshot = [c \in Clients |-> NoSnapshot]
    /\ fired = <<>>

\* ------------------------------------------------------------ createMatch
createMatch ==
    /\ pc = "rest"
    /\ matches = {}
    /\ matches' = {match.id}
    /\ last' = [op |-> "createMatch", out |-> "ok"]
    /\ sent' = {}
    /\ UNCHANGED <<fired, match, players, apc, pc, snapshot>>

getMatch(id) == id \in matches

\* -------------------------------------------------------------- addPlayer
\* addPlayerCheck without the comparison of the invite id: the fault that
\* would let a call with a wrong invite id through.
addPlayerCheckNoInvite(mid, inv) ==
    IF ~getMatch(mid) THEN "Match is no longer available"
    ELSE IF match.phase # IDLE THEN "Match is currently in progress"
    ELSE IF match.player1 # Unset /\ match.player2 # Unset
         THEN "Both players have already connected"
    ELSE "none"

\* The reason addPlayer rejects the call, or "none" (lines 50-66).
addPlayerCheck(mid, inv) ==
    IF ~getMatch(mid) THEN "Match is no longer available"
    ELSE IF match.phase # IDLE THEN "Match is currently in progress"
    ELSE IF inv # match.inviteId THEN "Invite id does not match"
    ELSE IF match.player1 # Unset /\ match.player2 # Unset
         THEN "Both players have already connected"
    ELSE "none"

\* addPlayer up to the awaited deck lookup: a rejected call sends its error
\* and ends, any other call is suspended at the await.
addPlayer(c, mid, inv) ==
    /\ pc = "rest"
    /\ apc[c] = "idle"
    /\ LET why == addPlayerCheck(mid, inv) IN
       IF why # "none"
       THEN /\ sent' = {Msg(c, "error", why)}
            /\ apc' = [apc EXCEPT ![c] = "done"]
            /\ last' = [op |-> "addPlayer", out |-> "rejected"]
       ELSE /\ sent' = {}
            /\ apc' = [apc EXCEPT ![c] = "awaitDecks"]
            /\ last' = [op |-> "addPlayer", out |-> "suspended"]
    /\ UNCHANGED <<fired, matches, match, players, pc, snapshot>>

\* addPlayerResume with the phase change outside the else branch: the fault
\* that would open deck choice as soon as the first player is admitted.
addPlayerResumeEager(c) ==
    /\ pc = "rest"
    /\ apc[c] = "awaitDecks"
    /\ players' = [players EXCEPT ![c] = NewPlayer(findDecks(c))]
    /\ IF match.player1 = Unset
       THEN /\ match' = [match EXCEPT !.player1 = c, !.phase = CHOOSE_DECK]
            /\ sent' = {}
       ELSE /\ match' = [match EXCEPT !.player2 = c, !.phase = CHOOSE_DECK]
            /\ sent' = {Msg(match.player1, "chooseDeck", ""),
                        Msg(c, "chooseDeck", "")}
    /\ apc' = [apc EXCEPT ![c] = "done"]
    /\ last' = [op |-> "addPlayer", out |-> "admitted"]
    /\ UNCHANGED <<fired, matches, pc, snapshot>>

\* addPlayer from the resumption after the await to its end (lines 70-97).
addPlayerResume(c) ==
    /\ pc = "rest"
    /\ apc[c] = "awaitDecks"
    /\ players' = [players EXCEPT ![c] = NewPlayer(findDecks(c))]
    /\ IF match.player1 = Unset
       THEN /\ match' = [match EXCEPT !.player1 = c]
            /\ sent' = {}
       ELSE /\ match' = [match EXCEPT !.player2 = c, !.phase = CHOOSE_DECK]
            /\ sent' = {Msg(match.player1, "chooseDeck", ""),
                        Msg(c, "chooseDeck", "")}
    /\ apc' = [apc EXCEPT ![c] = "done"]
    /\ last' = [op |-> "addPlayer", out |-> "admitted"]
    /\ UNCHANGED <<fired, matches, pc, snapshot>>

\* ---------------------------------------------------------------- effects
\* setPhaseFx(match, phase)
setPhaseFx(m, ph) == [m EXCEPT !.phase = ph]

\* stateUpdateFx(targets): every target's client receives the logical state
\* snapshot (active player, phase, each player's zone contents).
stateUpdateFx(sn, m, ps, targets) ==
    [c \in Clients |->
        IF c \in targets
        THEN [phase |-> m.phase, playerTurn |-> m.playerTurn, players |-> ps]
        ELSE sn[c]]

\* The messages one stateUpdateFx(targets) call hands to the transport.
stateUpdateMsgs(m, targets) == {Msg(c, "state", m.phase) : c \in targets}

\* untapFx(card)
untapFx(p, card) == [p EXCEPT !.tapped = @ \ {card}]

\* resolveSummoningSicknessFx(creature)
resolveSummoningSicknessFx(p, card) == [p EXCEPT !.sick = @ \ {card}]

\* drawCardsFx(player, n): the first n cards of the deck, taken out of it.
drawCardsFx(p, n) ==
    [cards |-> Take(p.deck, n), player |-> [p EXCEPT !.deck = Drop(@, n)]]

\* moveCardToFx(card, Container.HAND): the card ends up at the end of its
\* owner's hand and in no other container.
moveCardToFx(p, card) ==
    LET without(z) == SelectSeq(z, LAMBDA x : x # card) IN
    [p EXCEPT !.deck = without(@), !.shieldzone = without(@),
              !.manazone = without(@), !.graveyard = without(@),
              !.battlezone = without(@), !.hiddenzone = without(@),
              !.hand = Append(without(@), card)]

\* setupPlayer(player): the start-of-game setup, SetupShields cards from the
\* deck into the shield zone and SetupHand cards into the hand.
setupPlayer(p) ==
    LET afterShields == Drop(p.deck, SetupShields) IN
    [p EXCEPT !.shieldzone = @ \o Take(p.deck, SetupShields),
              !.hand = @ \o Take(afterShields, SetupHand),
              !.deck = Drop(afterShields, SetupHand)]

\* createDeck(deck.cards): one fresh card instance per card id of the deck.
createDeck(d) == [i \in 1..DeckSize(d) |-> i]

\* ---------------------------------------------------------- tryStartMatch
\* The two guards of tryStartMatch (lines 147-153).
canStart(m, ps) ==
    /\ m.player1 # Unset /\ ps[m.player1].hasDeck
    /\ m.player2 # Unset /\ ps[m.player2].hasDeck

\* tryStartMatch with guards that test the players but not their decks.
tryStartMatchLax(m, ps, sn, coin) ==
    IF m.player1 = Unset \/ m.player2 = Unset
    THEN [ret |-> FALSE, match |-> m, players |-> ps, snapshot |-> sn, sent |-> {}]
    ELSE LET ps1 == [ps EXCEPT ![m.player1] = setupPlayer(@)]
             ps2 == [ps1 EXCEPT ![m.player2] = setupPlayer(@)]
             m1 == [m EXCEPT !.playerTurn = IF coin THEN m.player1 ELSE m.player2]
         IN [ret |-> TRUE, match |-> m1, players |-> ps2,
             snapshot |-> stateUpdateFx(sn, m1, ps2, {m1.player1, m1.player2}),
             sent |-> stateUpdateMsgs(m1, {m1.player1, m1.player2})]

\* tryStartMatch that assigns playerTurn on one outcome of the coin only.
tryStartMatchOneSided(m, ps, sn, coin) ==
    IF ~canStart(m, ps)
    THEN [ret |-> FALSE, match |-> m, players |-> ps, snapshot |-> sn, sent |-> {}]
    ELSE LET ps1 == [ps EXCEPT ![m.player1] = setupPlayer(@)]
             ps2 == [ps1 EXCEPT ![m.player2] = setupPlayer(@)]
             m1 == IF coin THEN [m EXCEPT !.playerTurn = m.player1] ELSE m
         IN [ret |-> TRUE, match |-> m1, players |-> ps2,
             snapshot |-> stateUpdateFx(sn, m1, ps2, {m1.player1, m1.player2}),
             sent |-> stateUpdateMsgs(m1, {m1.player1, m1.player2})]

\* tryStartMatch up to its call of beginTurn, as a function of the state it is
\* called in; coin is Math.random() > 0.5. started tells whether beginTurn
\* is entered, ret is the value the call returns.
tryStartMatch(m, ps, sn, coin) ==
    IF ~canStart(m, ps)
    THEN [ret |-> FALSE, match |-> m, players |-> ps, snapshot |-> sn, sent |-> {}]
    ELSE LET ps1 == [ps EXCEPT ![m.player1] = setupPlayer(@)]
             ps2 == [ps1 EXCEPT ![m.player2] = setupPlayer(@)]
             m1 == [m EXCEPT !.playerTurn = IF coin THEN m.player1 ELSE m.player2]
         IN [ret |-> TRUE, match |-> m1, players |-> ps2,
             snapshot |-> stateUpdateFx(sn, m1, ps2, {m1.player1, m1.player2}),
             sent |-> stateUpdateMsgs(m1, {m1.player1, m1.player2})]

\* A call of the exported tryStartMatch on the match.
tryStartMatchCall(coin) ==
    /\ pc = "rest"
    /\ matches # {}
    /\ LET r == tryStartMatch(match, players, snapshot, coin) IN
       /\ match' = r.match
       /\ players' = r.players
       /\ snapshot' = r.snapshot
       /\ sent' = r.sent
       /\ pc' = IF r.ret THEN "beginTurn" ELSE "rest"
       /\ last' = [op |-> "tryStartMatch", out |-> IF r.ret THEN "true" ELSE "false"]
    /\ UNCHANGED <<fired, matches, apc>>

\* ------------------------------------------------------- playerChooseDeck
\* playerChooseDeck without the check that the player has no deck yet.
playerChooseDeckAgain(c, d, coin) ==
    /\ pc = "rest"
    /\ players[c].created
    /\ IF match.phase # CHOOSE_DECK
       THEN /\ last' = [op |-> "playerChooseDeck", out |-> "ignored"]
            /\ sent' = {}
            /\ UNCHANGED <<match, players, pc, snapshot>>
       ELSE IF d \notin players[c].decks
       THEN /\ sent' = {Msg(c, "warning", "You do not have the rights to use that deck")}
            /\ last' = [op |-> "playerChooseDeck", out |-> "warned"]
            /\ UNCHANGED <<match, players, pc, snapshot>>
       ELSE LET chosen == [players EXCEPT ![c].hasDeck = TRUE,
                                          ![c].deck = createDeck(d),
                                          ![c].tapped = {}]
                r == tryStartMatch(match, chosen, snapshot, coin)
            IN /\ match' = r.match
               /\ players' = r.players
               /\ snapshot' = r.snapshot
               /\ sent' = r.sent
               /\ pc' = IF r.ret THEN "beginTurn" ELSE "rest"
               /\ last' = [op |-> "playerChooseDeck",
                           out |-> IF r.ret THEN "true" ELSE "false"]
    /\ UNCHANGED <<fired, matches, apc>>

\* The player object attached to client c chooses deck d.
playerChooseDeck(c, d, coin) ==
    /\ pc = "rest"
    /\ players[c].created
    /\ IF match.phase # CHOOSE_DECK \/ players[c].hasDeck
       THEN /\ last' = [op |-> "playerChooseDeck", out |-> "ignored"]
            /\ sent' = {}
            /\ UNCHANGED <<match, players, pc, snapshot>>
       ELSE IF d \notin players[c].decks
       THEN /\ sent' = {Msg(c, "warning", "You do not have the rights to use that deck")}
            /\ last' = [op |-> "playerChooseDeck", out |-> "warned"]
            /\ UNCHANGED <<match, players, pc, snapshot>>
       ELSE LET chosen == [players EXCEPT ![c].hasDeck = TRUE,
                                          ![c].deck = createDeck(d),
                                          ![c].tapped = {}]
                r == tryStartMatch(match, chosen, snapshot, coin)
            IN /\ match' = r.match
               /\ players' = r.players
               /\ snapshot' = r.snapshot
               /\ sent' = r.sent
               /\ pc' = IF r.ret THEN "beginTurn" ELSE "rest"
               /\ last' = [op |-> "playerChooseDeck",
                           out |-> IF r.ret THEN "true" ELSE "false"]
    /\ UNCHANGED <<fired, matches, apc>>

\* ------------------------------------------------------ the steps of a turn
RECURSIVE resolveEach(_, _)
\* for(let creature of zone) resolveSummoningSicknessFx(creature)
resolveEach(p, zone) ==
    IF zone = <<>> THEN p
    ELSE resolveEach(resolveSummoningSicknessFx(p, Head(zone)), Tail(zone))

RECURSIVE untapEach(_, _)
\* for(let card of zone) untapFx(card)
untapEach(p, zone) ==
    IF zone = <<>> THEN p
    ELSE untapEach(untapFx(p, Head(zone)), Tail(zone))

\* Step 1: setPhaseFx, then summoning sickness is resolved for the active
\* player's creatures; continues with untapStep.
beginTurn ==
    /\ pc = "beginTurn"
    /\ match' = setPhaseFx(match, BEGIN_TURN_STEP)
    /\ LET t == match.playerTurn IN
       players' = [players EXCEPT ![t] =
                      resolveEach(@, @.battlezone)]
    /\ pc' = "untapStep"
    /\ UNCHANGED <<fired, matches, apc, last, sent, snapshot>>

\* untapStep untapping the cards of both players.
untapStepBoth ==
    /\ pc = "untapStep"
    /\ LET t == match.playerTurn
           m1 == setPhaseFx(match, UNTAP_STEP)
           both(p) == LET p1 == untapEach(p, p.battlezone)
                      IN untapEach(p1, p1.manazone)
           ps == [c \in Clients |->
                    IF c \in {m1.player1, m1.player2} THEN both(players[c])
                    ELSE players[c]]
       IN /\ match' = m1
          /\ players' = ps
          /\ snapshot' = stateUpdateFx(snapshot, m1, ps, {m1.player1, m1.player2})
          /\ sent' = sent \cup stateUpdateMsgs(m1, {m1.player1, m1.player2})
    /\ pc' = "startTurnStep"
    /\ UNCHANGED <<fired, matches, apc, last>>

\* untapStep sending the state update before the cards are untapped.
untapStepEarlyUpdate ==
    /\ pc = "untapStep"
    /\ LET t == match.playerTurn
           m1 == setPhaseFx(match, UNTAP_STEP)
           p1 == untapEach(players[t], players[t].battlezone)
           p2 == untapEach(p1, p1.manazone)
           ps == [players EXCEPT ![t] = p2]
       IN /\ match' = m1
          /\ players' = ps
          /\ snapshot' = stateUpdateFx(snapshot, m1, players, {m1.player1, m1.player2})
          /\ sent' = sent \cup stateUpdateMsgs(m1, {m1.player1, m1.player2})
    /\ pc' = "startTurnStep"
    /\ UNCHANGED <<fired, matches, apc, last>>

\* untapStep without the loop over the mana zone.
untapStepBattleOnly ==
    /\ pc = "untapStep"
    /\ LET t == match.playerTurn
           m1 == setPhaseFx(match, UNTAP_STEP)
           p1 == untapEach(players[t], players[t].battlezone)
           ps == [players EXCEPT ![t] = p1]
       IN /\ match' = m1
          /\ players' = ps
          /\ snapshot' = stateUpdateFx(snapshot, m1, ps, {m1.player1, m1.player2})
          /\ sent' = sent \cup stateUpdateMsgs(m1, {m1.player1, m1.player2})
    /\ pc' = "startTurnStep"
    /\ UNCHANGED <<fired, matches, apc, last>>

\* Step 2: the active player's battle zone and mana zone are untapped, then
\* a state update goes to both players; continues with startTurnStep.
untapStep ==
    /\ pc = "untapStep"
    /\ LET t == match.playerTurn
           m1 == setPhaseFx(match, UNTAP_STEP)
           p1 == untapEach(players[t], players[t].battlezone)
           p2 == untapEach(p1, p1.manazone)
           ps == [players EXCEPT ![t] = p2]
       IN /\ match' = m1
          /\ players' = ps
          /\ snapshot' = stateUpdateFx(snapshot, m1, ps, {m1.player1, m1.player2})
          /\ sent' = sent \cup stateUpdateMsgs(m1, {m1.player1, m1.player2})
    /\ pc' = "startTurnStep"
    /\ UNCHANGED <<fired, matches, apc, last>>

\* Step 3: nothing but the phase changes (line 208 is a TODO: no turn-start
\* event is dispatched, no handler is called); continues with drawStep.
startTurnStep ==
    /\ pc = "startTurnStep"
    /\ match' = setPhaseFx(match, START_TURN_STEP)
    /\ pc' = "drawStep"
    /\ UNCHANGED <<fired, matches, players, apc, last, sent, snapshot>>

\* drawStep without its final call of chargeStep.
drawStepNoCharge ==
    /\ pc = "drawStep"
    /\ match' = setPhaseFx(match, DRAW_STEP)
    /\ LET t == match.playerTurn IN
       IF Len(players[t].deck) < 1
       THEN UNCHANGED players
       ELSE LET drawn == drawCardsFx(players[t], 1) IN
            players' = [players EXCEPT ![t] =
                           moveCardToFx(drawn.player, drawn.cards[1])]
    /\ pc' = "rest"
    /\ UNCHANGED <<fired, matches, apc, last, sent, snapshot>>

\* drawStep without the moveCardToFx call: the drawn card leaves the deck
\* and is put nowhere.
drawStepNoMove ==
    /\ pc = "drawStep"
    /\ match' = setPhaseFx(match, DRAW_STEP)
    /\ LET t == match.playerTurn IN
       IF Len(players[t].deck) < 1
       THEN /\ pc' = "rest"
            /\ UNCHANGED players
       ELSE LET drawn == drawCardsFx(players[t], 1) IN
            /\ players' = [players EXCEPT ![t] = drawn.player]
            /\ pc' = "chargeStep"
    /\ UNCHANGED <<fired, matches, apc, last, sent, snapshot>>

\* Step 4: with an empty deck the step returns (the handler ends); otherwise
\* one card is drawn into the hand and chargeStep follows.
drawStep ==
    /\ pc = "drawStep"
    /\ match' = setPhaseFx(match, DRAW_STEP)
    /\ LET t == match.playerTurn IN
       IF Len(players[t].deck) < 1
       THEN /\ pc' = "rest"
            /\ UNCHANGED players
       ELSE LET drawn == drawCardsFx(players[t], 1) IN
            /\ players' = [players EXCEPT ![t] =
                              moveCardToFx(drawn.player, drawn.cards[1])]
            /\ pc' = "chargeStep"
    /\ UNCHANGED <<fired, matches, apc, last, sent, snapshot>>

\* chargeStep going on into mainStep instead of ending the handler.
chargeStepThenMain ==
    /\ pc = "chargeStep"
    /\ match' = setPhaseFx(setPhaseFx(match, CHARGE_STEP), MAIN_STEP)
    /\ pc' = "rest"
    /\ UNCHANGED <<fired, matches, players, apc, last, sent, snapshot>>

\* Step 5: the phase is set and the handler ends; the match waits for the
\* player.
chargeStep ==
    /\ pc = "chargeStep"
    /\ match' = setPhaseFx(match, CHARGE_STEP)
    /\ pc' = "rest"
    /\ UNCHANGED <<fired, matches, players, apc, last, sent, snapshot>>

\* ------------------------------------------------------------------- Spec
Next ==
    \/ createMatch
    \/ \E c \in Clients, mid \in MatchIds, inv \in InviteIds : addPlayer(c, mid, inv)
    \/ \E c \in Clients : addPlayerResume(c)
    \/ \E c \in Clients, d \in DeckIds, coin \in BOOLEAN : playerChooseDeck(c, d, coin)
    \/ \E coin \in BOOLEAN : tryStartMatchCall(coin)
    \/ beginTurn
    \/ untapStep
    \/ startTurnStep
    \/ drawStep
    \/ chargeStep

Spec == Init /\ [][Next]_vars

\* ------------------------------------------------- a turn from mid-game
\* Where a card of a mid-game position is, and its tap and sickness flags.
Place(z, t, s) == [zone |-> z, tapped |-> t, sick |-> s]

\* Places of the active player's cards: any of deck, hand, mana zone and
\* battle zone, tapped or not, summoning-sick or not.
ActivePlaces ==
    {Place("deck", FALSE, FALSE), Place("hand", FALSE, FALSE)}
    \cup {Place("manazone", t, FALSE) : t \in BOOLEAN}
    \cup {Place("battlezone", t, s) : t \in BOOLEAN, s \in BOOLEAN}

\* Places of the other player's cards.
WaitingPlaces ==
    {Place("deck", FALSE, FALSE), Place("manazone", TRUE, FALSE),
     Place("battlezone", TRUE, TRUE)}

\* The player object whose card i is at f[i].
PlayerAt(f) ==
    LET in(z) == SelectSeq([i \in 1..TurnCards |-> i], LAMBDA i : f[i].zone = z) IN
    [NewPlayer(StandardDecks) EXCEPT
        !.hasDeck = TRUE, !.deck = in("deck"), !.hand = in("hand"),
        !.manazone = in("manazone"), !.battlezone = in("battlezone"),
        !.tapped = {i \in 1..TurnCards : f[i].tapped},
        !.sick = {i \in 1..TurnCards : f[i].sick}]

\* A started match between clients 1 and 2 at the moment beginTurn is entered
\* for the active player t.
TurnInit ==
    /\ matches = {"m1"}
    /\ \E t \in {1, 2}, ph \in {CHOOSE_DECK, MAIN_STEP} :
          match = [id |-> "m1", inviteId |-> "i1", phase |-> ph,
                   player1 |-> 1, player2 |-> 2, playerTurn |-> t]
    /\ \E fa \in [1..TurnCards -> ActivePlaces], fw \in [1..TurnCards -> WaitingPlaces] :
          players = [c \in Clients |->
                        IF c = match.playerTurn THEN PlayerAt(fa)
                        ELSE IF c \in {1, 2} THEN PlayerAt(fw)
                        ELSE NoPlayer]
    /\ apc = [c \in Clients |-> IF c \in {1, 2} THEN "done" ELSE "idle"]
    /\ pc = "beginTurn"
    /\ last = [op |-> "tryStartMatch", out |-> "true"]
    /\ sent = {}
    /\ snapshot = [c \in Clients |-> NoSnapshot]
    /\ fired = <<>>

TurnNext == beginTurn \/ untapStep \/ startTurnStep \/ drawStep \/ chargeStep

SpecTurn == TurnInit /\ [][TurnNext]_vars
\* ============================================================ properties
\* The set of the elements of a sequence.
Range(s) == {s[i] : i \in 1..Len(s)}

\* Both player slots are filled and both players have chosen a deck.
BothChose ==
    /\ match.player1 # Unset
    /\ match.player2 # Unset
    /\ players[match.player1].hasDeck
    /\ players[match.player2].hasDeck

\* The clients whose addPlayer call got past the four checks.
Passed == {c \in Clients : apc[c] = "awaitDecks" \/ players[c].created}

\* The phases in which a turn is under way.
TurnPhases ==
    {BEGIN_TURN_STEP, UNTAP_STEP, START_TURN_STEP, DRAW_STEP, CHARGE_STEP, MAIN_STEP}

\* C1: while player1 or player2 is unset the phase is IDLE, and the phase
\* leaves IDLE only in the addPlayer call that fills the second player slot.
C1_IdleUntilTwoPlayers ==
    /\ []((match.player1 = Unset \/ match.player2 = Unset) => match.phase = IDLE)
    /\ [][(match.phase = IDLE /\ match'.phase # IDLE) =>
             /\ \E c \in Clients : addPlayerResume(c)
             /\ match.player1 # Unset
             /\ match.player2 = Unset
             /\ match'.player2 # Unset
             /\ match'.phase = CHOOSE_DECK]_vars

\* One player has been admitted, the second slot is empty, the match is IDLE.
C1_Witness ==
    /\ last = [op |-> "addPlayer", out |-> "admitted"]
    /\ match.player1 # Unset
    /\ match.player2 = Unset
    /\ match.phase = IDLE

\* C2: a tryStartMatch call returns true only if both players exist and have
\* a deck; otherwise it returns false and changes nothing (a call made by
\* playerChooseDeck changes nothing beyond the deck just chosen).
C2_TryStartMatchGuard ==
    [][/\ \A coin \in BOOLEAN :
            tryStartMatchCall(coin) =>
               IF last'.out = "true"
               THEN BothChose
               ELSE /\ ~BothChose
                    /\ sent' = {}
                    /\ UNCHANGED <<matches, match, players, apc, pc, snapshot>>
       /\ \A c \in Clients, d \in DeckIds, coin \in BOOLEAN :
            (playerChooseDeck(c, d, coin) /\ last'.out \in {"true", "false"}) =>
               IF last'.out = "true"
               THEN BothChose'
               ELSE /\ ~BothChose'
                    /\ sent' = {}
                    /\ players' = [players EXCEPT ![c].hasDeck = TRUE,
                                                  ![c].deck = createDeck(d)]
                    /\ UNCHANGED <<matches, match, apc, pc, snapshot>>]_vars

\* tryStartMatch has just returned false for a match whose two players are
\* there, one with a deck and one without.
C2_Witness ==
    /\ last = [op |-> "tryStartMatch", out |-> "false"]
    /\ match.player1 # Unset
    /\ match.player2 # Unset
    /\ players[match.player1].hasDeck
    /\ ~players[match.player2].hasDeck

\* C3: when no more than two addPlayer calls got past the checks (as is the
\* case when calls are applied one at a time), the admission of the second
\* player leaves the match in CHOOSE_DECK, and the playerChooseDeck call after
\* which both players have a deck has tryStartMatch return true and leaves
\* the match at rest in the Charge step with playerTurn one of the two players.
C3_EndToEnd ==
    (Cardinality(Passed) <= 2 /\ pc = "rest") =>
        /\ (last = [op |-> "addPlayer", out |-> "admitted"] /\ match.player2 # Unset)
              => match.phase = CHOOSE_DECK
        /\ (last.op = "playerChooseDeck" /\ last.out \in {"true", "false"} /\ BothChose)
              => /\ last.out = "true"
                 /\ match.phase = CHARGE_STEP
                 /\ match.playerTurn # Unset
                 /\ match.playerTurn \in {match.player1, match.player2}

\* Two players joined, both chose a deck, the match rests in the Charge step.
C3_Witness ==
    /\ Cardinality(Passed) = 2
    /\ pc = "rest"
    /\ last = [op |-> "playerChooseDeck", out |-> "true"]
    /\ match.phase = CHARGE_STEP
    /\ match.playerTurn = match.player2

\* C4: an addPlayer call for an unknown match, a match not in IDLE, a wrong
\* invite id or a full match sends one error, to the calling client, ends,
\* and leaves the match and the players as they were.
C4_RejectedJoin ==
    [][\A c \in Clients, mid \in MatchIds, inv \in InviteIds :
          (/\ addPlayer(c, mid, inv)
           /\ \/ mid \notin matches
              \/ match.phase # IDLE
              \/ inv # match.inviteId
              \/ (match.player1 # Unset /\ match.player2 # Unset))
          => /\ sent' # {}
             /\ \A m \in sent' : m.to = c /\ m.kind = "error"
             /\ apc'[c] = "done"
             /\ UNCHANGED <<matches, match, players, pc, snapshot>>]_vars

\* A call was rejected for its invite id while the match held one player.
C4_Witness ==
    /\ last = [op |-> "addPlayer", out |-> "rejected"]
    /\ \E m \in sent : m.text = "Invite id does not match"
    /\ match.player1 # Unset
    /\ match.phase = IDLE

\* C5: once player1 and player2 are both set, no step overwrites either of
\* them, sets the phase back to CHOOSE_DECK or sends the choose-deck prompt
\* again.
C5_AtMostTwoAdmitted ==
    [][(match.player1 # Unset /\ match.player2 # Unset) =>
          /\ match'.player1 = match.player1
          /\ match'.player2 = match.player2
          /\ ~(match.phase # CHOOSE_DECK /\ match'.phase = CHOOSE_DECK)
          /\ ~(last'.op = "addPlayer" /\ \E m \in sent' : m.kind = "chooseDeck")]_vars

\* C6 as stated: from createMatch onwards playerTurn is defined and equals
\* player1 or player2, in IDLE and CHOOSE_DECK too.
C6_AlwaysActivePlayer ==
    matches # {} =>
        /\ match.playerTurn # Unset
        /\ match.playerTurn \in {match.player1, match.player2}

\* C6, amended: playerTurn is undefined while the match is IDLE; whenever a
\* turn is under way (the turn engine is running, or the phase is a step of a
\* turn) playerTurn is defined and equals player1 or player2.
C6_ActivePlayerInTurn ==
    /\ match.phase = IDLE => match.playerTurn = Unset
    /\ (pc # "rest" \/ match.phase \in TurnPhases) =>
          /\ match.playerTurn # Unset
          /\ match.playerTurn \in {match.player1, match.player2}

\* The match rests in the Charge step and player2 is the active player.
C6_Witness ==
    /\ pc = "rest"
    /\ match.phase = CHARGE_STEP
    /\ match.playerTurn = match.player2

\* The number of places card x takes in the seven containers of player p.
Occurrences(p, x) ==
    LET in(z) == Cardinality({i \in 1..Len(z) : z[i] = x}) IN
    in(p.deck) + in(p.hand) + in(p.shieldzone) + in(p.manazone)
        + in(p.graveyard) + in(p.battlezone) + in(p.hiddenzone)

\* C7: every card of every player who has chosen a deck is in exactly one of
\* its owner's containers (deck, hand, shield zone, mana zone, graveyard,
\* battle zone, hidden zone), in the state itself and in every state update
\* a client holds.
C7_OneZonePerCard ==
    \A c \in Clients :
        /\ players[c].hasDeck =>
              \A x \in 1..DeckSize("d1") : Occurrences(players[c], x) = 1
        /\ \A o \in Clients :
              snapshot[c].players[o].hasDeck =>
                 \A x \in 1..DeckSize("d1") :
                    Occurrences(snapshot[c].players[o], x) = 1

\* The Draw step has moved a card from the active player's deck to the hand.
C7_Witness ==
    /\ pc = "chargeStep"
    /\ match.phase = DRAW_STEP
    /\ Len(players[match.playerTurn].hand) = SetupHand + 1
    /\ Len(players[match.playerTurn].deck) = SpareCards - 1

\* The match is recorded as lost: its phase is none of the phases of the
\* pre-game or of a turn.
LossState == match.phase \notin ({IDLE, CHOOSE_DECK} \cup TurnPhases)

\* C8: the Draw step with a non-empty deck adds one card to the active
\* player's hand and takes one from the deck; with an empty deck it leaves
\* hand and deck alone and puts the match in a loss state.
C8_DrawStep ==
    [][drawStep =>
          LET t == match.playerTurn IN
          IF Len(players[t].deck) > 0
          THEN /\ Len(players'[t].hand) = Len(players[t].hand) + 1
               /\ Len(players'[t].deck) = Len(players[t].deck) - 1
          ELSE /\ players'[t].hand = players[t].hand
               /\ players'[t].deck = players[t].deck
               /\ LossState']_vars

\* C9: when the Untap step has completed, no card in the active player's
\* battle zone or mana zone is tapped.
C9_UntapStep ==
    pc = "startTurnStep" =>
        LET p == players[match.playerTurn] IN
        p.tapped \cap (Range(p.battlezone) \cup Range(p.manazone)) = {}

\* The Untap step has completed for an active player with cards in the
\* battle zone and in the mana zone, while the other player holds tapped cards.
C9_Witness ==
    /\ pc = "startTurnStep"
    /\ players[match.playerTurn].battlezone # <<>>
    /\ players[match.playerTurn].manazone # <<>>
    /\ \E o \in {match.player1, match.player2} : players[o].tapped # {}

\* C10: when the match is at rest in the Charge step, the last state update
\* each of the two players received shows the Charge step and the active
\* player's hand with the card just drawn.
C10_SnapshotAtCharge ==
    (pc = "rest" /\ match.phase = CHARGE_STEP) =>
        \A c \in {match.player1, match.player2} :
            /\ snapshot[c].phase = CHARGE_STEP
            /\ snapshot[c].players[match.playerTurn].hand
                  = players[match.playerTurn].hand

\* The phases of a turn in the order of the steps, and the step that sets each.
TurnOrder ==
    <<BEGIN_TURN_STEP, UNTAP_STEP, START_TURN_STEP, DRAW_STEP, CHARGE_STEP>>

StepOrder ==
    <<"beginTurn", "untapStep", "startTurnStep", "drawStep", "chargeStep">>

\* C11: within a turn the phase takes the values BEGIN_TURN_STEP, UNTAP_STEP,
\* START_TURN_STEP, DRAW_STEP, CHARGE_STEP in exactly that order, none skipped
\* and none repeated: the i-th step of a turn sets the i-th phase, it finds
\* the phase of the step before it, the step after it follows at once (the
\* turn ends only after the Charge step, or in the Draw step on an empty
\* deck), and no step of the program ever sets the phase to MAIN_STEP.
C11_PhaseOrder ==
    [][/\ match'.phase = MAIN_STEP => match.phase = MAIN_STEP
       /\ \A i \in 1..5 :
             pc = StepOrder[i] =>
                /\ match'.phase = TurnOrder[i]
                /\ i > 1 => match.phase = TurnOrder[i - 1]
                /\ \/ i < 5 /\ pc' = StepOrder[i + 1]
                   \/ i = 5 /\ pc' = "rest"
                   \/ /\ i = 4 /\ pc' = "rest"
                      /\ players[match.playerTurn].deck = <<>>
       /\ (match'.phase \in TurnPhases /\ match'.phase # match.phase)
             => pc \in Range(StepOrder)]_vars

\* A turn that ran all five steps and left the match waiting in Charge.
C11_Witness ==
    /\ pc = "rest"
    /\ match.phase = CHARGE_STEP
    /\ match.playerTurn # Unset
    /\ Len(players[match.playerTurn].hand) = SetupHand + 1

\* C12: whenever the engine has returned control to its caller, the phase is
\* IDLE or CHOOSE_DECK (before the start) or CHARGE_STEP or MAIN_STEP; the
\* match never rests in BEGIN_TURN_STEP, UNTAP_STEP, START_TURN_STEP or
\* DRAW_STEP.
C12_RestPhases ==
    pc = "rest" =>
        match.phase \in {IDLE, CHOOSE_DECK, CHARGE_STEP, MAIN_STEP}

\* C13: every rejected playerChooseDeck call (the match is not in
\* CHOOSE_DECK, the player already has a deck, or the deck id is not one of
\* the player's decks) changes no state and sends a message, to the calling
\* player and to nobody else.
C13_RejectedChoice ==
    [][\A c \in Clients, d \in DeckIds, coin \in BOOLEAN :
          ( /\ playerChooseDeck(c, d, coin)
            /\ \/ match.phase # CHOOSE_DECK
               \/ players[c].hasDeck
               \/ d \notin players[c].decks )
          => /\ UNCHANGED <<matches, match, players, pc, snapshot>>
             /\ sent' # {}
             /\ \A msg \in sent' : msg.to = c]_vars

\* C14: in the StartOfTurn step the start-of-turn handlers of the creatures
\* in the active player's battle zone are called in the order the creatures
\* were put there, all of them before the Draw step begins.
C14_StartOfTurnHandlers ==
    pc \in {"drawStep", "chargeStep", "rest"} =>
        fired = players[match.playerTurn].battlezone

\* C15: the state update of the Untap step is sent to both players after
\* every card is untapped and before the StartOfTurn and Draw steps: what
\* each player received shows the phase UNTAP_STEP, no tapped card in the
\* active player's battle zone or mana zone, and the active player's hand as
\* it is before the turn's draw (the whole state as the Untap step left it).
C15_UntapSnapshot ==
    pc \in {"startTurnStep", "drawStep", "chargeStep", "rest"} =>
        LET t == match.playerTurn IN
        /\ stateUpdateMsgs(setPhaseFx(match, UNTAP_STEP),
                           {match.player1, match.player2}) \subseteq sent
        /\ \A c \in {match.player1, match.player2} :
              LET seen == snapshot[c].players[t] IN
              /\ snapshot[c].phase = UNTAP_STEP
              /\ snapshot[c].playerTurn = t
              /\ seen.tapped \cap (Range(seen.battlezone) \cup Range(seen.manazone)) = {}
              /\ pc \in {"startTurnStep", "drawStep"} => snapshot[c].players = players
              /\ \/ seen.hand = players[t].hand /\ seen.deck = players[t].deck
                 \/ /\ seen.deck # <<>>
                    /\ players[t].hand = Append(seen.hand, seen.deck[1])

\* The turn went on to the draw after the Untap step of a player with a card
\* in the battle zone or the mana zone: the players hold the Untap update and
\* the hand has since grown by the drawn card.
C15_Witness ==
    /\ pc = "chargeStep"
    /\ players[match.playerTurn].battlezone \o players[match.playerTurn].manazone # <<>>
    /\ snapshot[match.player2].phase = UNTAP_STEP
    /\ Len(players[match.playerTurn].hand)
         = Len(snapshot[match.player2].players[match.playerTurn].hand) + 1

\* C16: an addPlayer call with the right invite id for an existing match
\* that already holds two players is rejected with the error "Both players
\* have already connected".
C16_MatchFull ==
    [][\A c \in Clients, mid \in MatchIds, inv \in InviteIds :
          ( /\ addPlayer(c, mid, inv)
            /\ mid \in matches
            /\ inv = match.inviteId
            /\ match.player1 # Unset
            /\ match.player2 # Unset )
          => sent' = {Msg(c, "error", "Both players have already connected")}]_vars

\* C17: a match is started at most once, whatever the sequence of addPlayer,
\* playerChooseDeck and tryStartMatch calls: the start sequence (set up both
\* players, choose the starting player, begin the first turn) only runs on a
\* match that has not been started before.
C17_StartedOnce ==
    [][(pc = "rest" /\ pc' = "beginTurn") => match.playerTurn = Unset]_vars

\* The phases in the order a match goes through them.
PhaseOrder ==
    <<IDLE, CHOOSE_DECK, BEGIN_TURN_STEP, UNTAP_STEP, START_TURN_STEP,
      DRAW_STEP, CHARGE_STEP>>

PhaseRank(ph) == CHOOSE i \in 1..Len(PhaseOrder) : PhaseOrder[i] = ph

\* C18: the phase only moves forward along IDLE, CHOOSE_DECK,
\* BEGIN_TURN_STEP, UNTAP_STEP, START_TURN_STEP, DRAW_STEP, CHARGE_STEP; in
\* particular a match that has left IDLE never is in IDLE again and a match
\* that has left CHOOSE_DECK never is in CHOOSE_DECK again.
C18_PhaseForward ==
    [][PhaseRank(match.phase) <= PhaseRank(match'.phase)]_vars

C20_OnlyActivePlayer ==
    [][pc # "rest" =>
          \A o \in {match.player1, match.player2} \ {match.playerTurn} :
              players'[o] = players[o]]_vars

\* A turn has run to its rest in Charge beside a non-active player who holds
\* tapped and summoning-sick cards.
C20_Witness ==
    /\ pc = "rest"
    /\ match.phase = CHARGE_STEP
    /\ \E o \in {match.player1, match.player2} \ {match.playerTurn} :
          /\ players[o].tapped # {}
          /\ players[o].sick # {}
          /\ players[o].manazone # <<>>

====
